---- MODULE Spec2Model ----
(***************************************************************************)
(* Text-to-speech services of short-video-maker.                           *)
(*                                                                         *)
(*   scripts/tts/hybrid_tts_service.py   HybridTTSService and its routes   *)
(*   scripts/tts/tts_service_backup.py   per-language XTTS service         *)
(*                                                                         *)
(* Each Flask handler runs on a thread of the serving pool.  A handler is  *)
(* cut into steps at the points where it blocks or touches state shared    *)
(* with other handlers: the model initializer, the model lock, the model   *)
(* invocation.  Everything a handler does between two such points is part  *)
(* of one action.                                                          *)
(*                                                                         *)
(* Strings are sequences of tokens; a token is a substring that the code   *)
(* treats as a unit (a word, a blank, a quote character, a file suffix).   *)
(* String concatenation is sequence concatenation.  No concatenation of    *)
(* two or more tokens spells a registry key.                               *)
(***************************************************************************)
EXTENDS Integers, Sequences, FiniteSets, TLC

VARIABLES
    service,            \* which service module the process runs
    chatterbox_model,   \* HybridTTSService.chatterbox_model
    xtts_model,         \* HybridTTSService.xtts_model
    tts_models,         \* tts_service_backup.tts_models
    model_lock,         \* tts_service_backup.model_lock: 0 free, else owner
    reference_audio,    \* names of the files present in reference_audio/
    output_dir,         \* data/temp: file name -> content
    accepted,           \* number of requests accepted so far
    inits,              \* key -> number of handles its initializer created
    failedKeys,         \* keys for which a load ran out of candidates
    lastLoad,           \* key -> handle the last successful load of it gave
    pc,                 \* thread -> position of its handler
    req,                \* thread -> the request it serves
    loc,                \* thread -> the handler's local variables
    resp,               \* thread -> the response it sent
    obs,                \* thread -> what the request did (history)
    issued,             \* the download links handed out, each with its request
    hash_seed,          \* the seed of str hashes this process run drew
    sys_stdout,         \* generate_audio.py: the stream sys.stdout names
    stdout,             \* generate_audio.py: what standard output received
    voice_config,       \* HybridTTSService.voice_config
    torch_load,         \* torch.load: how many wrappers are around the original
    temp_files          \* the files of the temporary directory

vars == <<service, chatterbox_model, xtts_model, tts_models, model_lock,
          reference_audio, output_dir, accepted, inits, failedKeys,
          lastLoad, pc, req, loc, resp, obs, issued, hash_seed,
          sys_stdout, stdout, voice_config, torch_load, temp_files>>

shared == <<chatterbox_model, xtts_model, tts_models, model_lock,
            output_dir, issued, inits, failedKeys, lastLoad>>

cli == <<sys_stdout, stdout>>

patches == <<torch_load, temp_files>>

----------------------------------------------------------------------------
(* Bounds *)

NumThreads == 2
MaxTextLen == 2
MaxLegacyTextLen == 1
MaxRequests == 2
MaxConcRequests == 2
HashBits == 24
MaxHashSeed == 1

Threads == 1..NumThreads

----------------------------------------------------------------------------
(* Strings *)

DQ == "\""
SQ == "'"
SP == " "

TextTokens == {"Hi", SP, DQ}

RECURSIVE SeqsUpTo(_, _)
SeqsUpTo(S, n) ==
    IF n = 0 THEN {<<>>}
    ELSE LET shorter == SeqsUpTo(S, n - 1)
         IN  shorter \cup {Append(s, x) : s \in shorter, x \in S}

\* str.strip(): leading and trailing whitespace removed
RECURSIVE LStrip(_)
LStrip(s) ==
    IF s # <<>> /\ Head(s) = SP THEN LStrip(Tail(s)) ELSE s

RECURSIVE RStrip(_)
RStrip(s) ==
    IF s # <<>> /\ s[Len(s)] = SP THEN RStrip(SubSeq(s, 1, Len(s) - 1)) ELSE s

strip(s) == RStrip(LStrip(s))

\* str.replace(tok, ''): every occurrence of tok removed
RECURSIVE replace(_, _)
replace(s, tok) ==
    IF s = <<>> THEN <<>>
    ELSE IF Head(s) = tok THEN replace(Tail(s), tok)
         ELSE <<Head(s)>> \o replace(Tail(s), tok)

HasToken(s, tok) == \E i \in 1..Len(s) : s[i] = tok

\* dict.get(key, default)
get(data, key, default) == IF key \in DOMAIN data THEN data[key] ELSE default

\* d[key] = value
Put(d, key, value) ==
    [k \in DOMAIN d \cup {key} |-> IF k = key THEN value ELSE d[k]]

----------------------------------------------------------------------------
(* Handles *)

None == [key |-> "none", n |-> 0, model |-> "none"]

NewHandle(key, model) == [key |-> key, n |-> inits[key] + 1, model |-> model]

HybridKeys == {"chatterbox", "xtts"}
Languages == {"pt", "en", "es"}
Keys == HybridKeys \cup Languages

----------------------------------------------------------------------------
(* Voice registry of the hybrid service *)

\* self.voice_config = {...} of HybridTTSService.__init__

VoiceRegistry ==
    [Charlotte |-> [engine |-> "chatterbox", language |-> "en",
                    gender |-> "female", audio_file |-> <<"Charlotte", ".WAV">>],
     Hamilton  |-> [engine |-> "chatterbox", language |-> "en",
                    gender |-> "male", audio_file |-> <<"Hamilton", ".WAV">>],
     Noel      |-> [engine |-> "xtts", language |-> "es",
                    gender |-> "male", audio_file |-> <<"Noel", ".WAV">>],
     Pilar     |-> [engine |-> "xtts", language |-> "es",
                    gender |-> "female", audio_file |-> <<"Pilar", ".WAV">>],
     Paulo     |-> [engine |-> "xtts", language |-> "pt",
                    gender |-> "male", audio_file |-> <<"Paulo", ".WAV">>],
     Ines      |-> [engine |-> "xtts", language |-> "pt",
                    gender |-> "female", audio_file |-> <<"Ines", ".WAV">>]]

\* voice_name in self.voice_config
InVoiceConfig(v) == Len(v) = 1 /\ v[1] \in DOMAIN voice_config

\* the files of reference_audio/, one per registered voice
AllReferenceFiles == {VoiceRegistry[v].audio_file : v \in DOMAIN VoiceRegistry}

----------------------------------------------------------------------------
(* File names of data/temp *)

TokenList == <<"Hi", SP, DQ, SQ, ".WAV", ".wav", "Charlotte", "Hamilton",
               "Noel", "Pilar", "Paulo", "Ines", "Bob">>

TokenCode(tok) == CHOOSE i \in 1..Len(TokenList) : TokenList[i] = tok

HashBase == Len(TokenList) + 1

RECURSIVE Horner(_)
Horner(s) ==
    IF s = <<>> THEN 0
    ELSE (Horner(SubSeq(s, 1, Len(s) - 1)) * HashBase + TokenCode(s[Len(s)]))
         % (2 ^ HashBits)

\* the seeds a process run can draw (PYTHONHASHSEED unset: random per run)
HashSeeds == 0..MaxHashSeed

\* hash(str): a function of the string and of the seed of the process run;
\* hash('') is 0 whatever the seed; the range (2^64 in CPython) is cut to
\* 2^HashBits
hash(s) ==
    IF s = <<>> THEN 0
    ELSE (Horner(s) * (MaxHashSeed + 1) + hash_seed) % (2 ^ HashBits)

\* f"generated_{hash(text + reference_audio_filename)}.wav"
output_filename(text, reference_audio_filename) ==
    <<"generated_", hash(text \o reference_audio_filename), ".wav">>

\* f"/api/download/{output_filename}"
download_link(filename) == <<"/api/download/">> \o filename

----------------------------------------------------------------------------
(* Requests *)

Opt(S) == {[has |-> FALSE, val |-> <<>>]} \cup {[has |-> TRUE, val |-> s] : s \in S}

\* a JSON object with up to three optional members
Object(k1, o1, k2, o2, k3, o3) ==
    [k \in {k \in {k1, k2, k3} : \/ k = k1 /\ o1.has
                                 \/ k = k2 /\ o2.has
                                 \/ k = k3 /\ o3.has}
        |-> IF k = k1 THEN o1.val ELSE IF k = k2 THEN o2.val ELSE o3.val]

Absent == [has |-> FALSE, val |-> <<>>]

NoJson(endpoint) == [endpoint |-> endpoint, json |-> FALSE, body |-> <<>>]

Json(endpoint, body) == [endpoint |-> endpoint, json |-> TRUE, body |-> body]

Texts == SeqsUpTo(TextTokens, MaxTextLen)

LegacyTexts == SeqsUpTo(TextTokens, MaxLegacyTextLen)

VoiceNames == DOMAIN voice_config

VoiceStrings ==
    {<<>>, <<SP>>, <<SP, "Charlotte", SP>>}
        \cup {<<v>> : v \in {"Charlotte", "Noel", "Pilar", "Bob"}}

RefStrings ==
    {<<>>, <<"Charlotte", ".WAV">>, <<"Noel", ".wav">>, <<"Paulo", ".WAV">>,
     <<"Bob", ".wav">>, <<"Hamilton">>}

\* the reference files that requests with a language member name
LanguageRefStrings == {<<"Charlotte", ".WAV">>, <<"Bob", ".wav">>}

\* bodies of POST /generate
GenerateRequests ==
    {NoJson("/generate")}
        \cup {Json("/generate", Object("text", tx, "voice", vo, "-", Absent)) :
                tx \in Opt(Texts), vo \in Opt(VoiceStrings)}

\* bodies of POST /api/tts of the hybrid service
LegacyRequests ==
    {NoJson("/api/tts")}
        \cup {Json("/api/tts",
                   Object("text", tx, "reference_audio_filename", rf,
                          "language", Absent)) :
                tx \in Opt(LegacyTexts), rf \in Opt(RefStrings)}
        \cup {Json("/api/tts",
                   Object("text", tx, "reference_audio_filename", rf,
                          "language", lg)) :
                tx \in Opt(LegacyTexts), rf \in Opt(LanguageRefStrings),
                lg \in Opt({"fr"})}

BackupRefStrings ==
    {<<>>, <<"Charlotte", ".WAV">>, <<"Pilar", ".WAV">>, <<"Bob", ".wav">>,
     <<"Hi", "Bob", ".wav">>}

\* bodies of POST /api/tts of tts_service_backup
BackupRequests ==
    {NoJson("/api/tts")}
        \cup {Json("/api/tts",
                   Object("text", tx, "reference_audio_filename", rf,
                          "language", Absent)) :
                tx \in Opt(LegacyTexts), rf \in Opt(BackupRefStrings)}
        \cup {Json("/api/tts",
                   Object("text", tx, "reference_audio_filename", rf,
                          "language", lg)) :
                tx \in Opt(LegacyTexts), rf \in Opt(LanguageRefStrings),
                lg \in Opt({"fr"})}

\* the requests of the concurrent clients
ConcGenerateRequests ==
    {Json("/generate", [text |-> <<"Hi">>, voice |-> <<v>>]) :
        v \in {"Charlotte", "Noel"}}

ConcLegacyRequests ==
    {Json("/api/tts", [text |-> <<"Hi">>,
                       reference_audio_filename |-> <<v, ".WAV">>]) :
        v \in {"Hamilton"}}

ConcBackupRequests ==
    {Json("/api/tts", [text |-> <<"Hi">>,
                       reference_audio_filename |-> <<"Charlotte", ".WAV">>]),
     Json("/api/tts", [text |-> <<"Hi">>,
                       reference_audio_filename |-> <<"Paulo", ".WAV">>]),
     Json("/api/tts", [text |-> <<"Hi">>,
                       reference_audio_filename |-> <<"Bob", ".wav">>,
                       language |-> "fr"])}

----------------------------------------------------------------------------
(* Threads *)

NoReq == [endpoint |-> "none", json |-> FALSE, body |-> <<>>]

NoLoc == [text |-> <<>>, voice |-> <<>>, engine |-> "none",
          requested |-> "none", language |-> "none", candidate |-> 0,
          handle |-> None, handed |-> <<>>, with_language |-> FALSE,
          with_speaker_wav |-> FALSE]

NoResp == [status |-> 0, type |-> "none", body |-> <<>>]

NoObs == [serial |-> 0, dispatched |-> FALSE, loader |-> "none",
          afterFailed |-> {}, before |-> <<>>, prior |-> None,
          made |-> None, tried |-> <<>>, inference |-> "none",
          calls |-> <<>>, exception |-> "none", returned |-> <<>>,
          rate |-> <<>>, temp |-> <<>>, io |-> "none", files |-> <<>>]

Idle(t) == pc[t] \in {"idle", "done"}

Handles == <<chatterbox_model, xtts_model, tts_models>>

\* thread t of the pool of service svc is free to pick up a request
Free(t, svc, cap) == service = svc /\ Idle(t) /\ accepted < cap

\* thread t picks up request r
Accept(t, r) ==
    /\ accepted' = accepted + 1
    /\ req' = [req EXCEPT ![t] = r]

FreshObs == [NoObs EXCEPT !.serial = accepted + 1,
                          !.afterFailed = failedKeys,
                          !.before = Handles,
                          !.files = output_dir]

Step(t, newpc, newloc, newresp, newobs) ==
    /\ pc' = [pc EXCEPT ![t] = newpc]
    /\ loc' = [loc EXCEPT ![t] = newloc]
    /\ resp' = [resp EXCEPT ![t] = newresp]
    /\ obs' = [obs EXCEPT ![t] = newobs]

\* jsonify({"error": msg}), status
JsonError(status, msg) ==
    [status |-> status, type |-> "json", body |-> <<"error", msg>>]

\* jsonify({"download_link": ...})
JsonLink(name) ==
    [status |-> 200, type |-> "json",
     body |-> <<"download_link", download_link(name)>>]

\* the waveform sent with jsonify instead of send_file
WavFile_jsonified(wave) == [status |-> 200, type |-> "json", body |-> wave]

\* send_file(audio_buffer, mimetype='audio/wav')
WavFile(wave) == [status |-> 200, type |-> "audio/wav", body |-> wave]

\* the waveform the model produced for the request thread t serves: inference
\* samples, so no two requests get the same samples
Wave(t) == <<"wave", obs[t].serial>>

\* the download link a client got for the /api/tts request of thread t
Link(t, name) ==
    [name |-> name, wave |-> Wave(t),
     text |-> get(req[t].body, "text", <<>>),
     reference_audio_filename |->
         get(req[t].body, "reference_audio_filename", <<>>)]

----------------------------------------------------------------------------
(* hybrid_tts_service.py *)

\* the checks of route /generate with .strip() left out of both reads
generate_validation_untrimmed(r) ==
    LET data == r.body
        text == get(data, "text", <<>>)
        voice == get(data, "voice", <<>>)
    IN  IF ~r.json \/ DOMAIN data = {} THEN "No JSON data provided"
        ELSE IF text = <<>> THEN "Text is required"
        ELSE IF voice = <<>> THEN "Voice is required"
        ELSE IF ~InVoiceConfig(voice) THEN "Unknown voice"
        ELSE "ok"

\* the checks of route /generate before it calls hybrid_tts.generate_speech
generate_validation(r) ==
    LET data == r.body
        text == strip(get(data, "text", <<>>))
        voice == strip(get(data, "voice", <<>>))
    IN  IF ~r.json \/ DOMAIN data = {} THEN "No JSON data provided"
        ELSE IF text = <<>> THEN "Text is required"
        ELSE IF voice = <<>> THEN "Voice is required"
        ELSE IF ~InVoiceConfig(voice) THEN "Unknown voice"
        ELSE "ok"

\* POST /generate, up to the call of hybrid_tts.generate_speech(text, voice)
generate_route(t, r) ==
    /\ Accept(t, r)
    /\ LET refusal == generate_validation(r)
       IN  IF refusal # "ok"
           THEN Step(t, "done", NoLoc, JsonError(400, <<refusal>>), FreshObs)
           ELSE Step(t, "dispatch",
                     [NoLoc EXCEPT !.text = strip(get(r.body, "text", <<>>)),
                                   !.voice = strip(get(r.body, "voice", <<>>))],
                     NoResp, FreshObs)
    /\ UNCHANGED <<service, voice_config, patches, hash_seed, cli, reference_audio, shared>>

\* the checks of route /api/tts before it calls hybrid_tts.generate_speech:
\* data.get raises on a missing body and the except clause answers
legacy_validation(r) ==
    IF ~r.json THEN JsonError(500, <<"Erro interno do servidor">>)
    ELSE IF get(r.body, "reference_audio_filename", <<>>) = <<>>
    THEN JsonError(400, <<"reference_audio_filename obrigatorio">>)
    ELSE NoResp

\* POST /api/tts, up to the call of hybrid_tts.generate_speech(text, voice_name)
hybrid_handle_tts_request(t, r) ==
    /\ Accept(t, r)
    /\ LET reference_audio_filename ==
               get(r.body, "reference_audio_filename", <<>>)
           voice_name ==
               replace(replace(reference_audio_filename, ".WAV"), ".wav")
           refusal == legacy_validation(r)
       IN  IF refusal # NoResp
           THEN Step(t, "done", NoLoc, refusal, FreshObs)
           ELSE Step(t, "dispatch",
                     [NoLoc EXCEPT !.text = get(r.body, "text", <<>>),
                                   !.voice = voice_name],
                     NoResp, FreshObs)
    /\ UNCHANGED <<service, voice_config, patches, hash_seed, cli, reference_audio, shared>>

\* what a model invocation does: it returns, or it raises with this text
LanguageError == "model is not multi-lingual but language is provided"
OtherError == "CUDA out of memory"
ModelOutcomes == {"ok", LanguageError, OtherError}

\* "language" in str(e) and "multi-lingual" in str(e)
is_language_error(e) == e = LanguageError

\* the record of one model invocation of thread t and its outcome
Call(t, outcome) ==
    [text |-> loc[t].handed, language |-> loc[t].with_language,
     speaker_wav |-> loc[t].with_speaker_wav, outcome |-> outcome]

\* one model attribute read for both engines
Model_single(engine) == chatterbox_model

\* self.chatterbox_model / self.xtts_model: the model attribute of an engine
Model(engine) == IF engine = "chatterbox" THEN chatterbox_model ELSE xtts_model

\* jsonify({"error": ...}) returned without its status code: Flask answers 200
route_status_default(success) == 200

\* the status the handlers give the result of generate_speech
route_status(success) == IF success THEN 200 ELSE 500

\* if not success: return jsonify({"error": ...}), 500
RouteFailure(t, msg, newobs) ==
    Step(t, "done", loc[t], JsonError(route_status(FALSE), msg), newobs)

\* a failure returned with the sample rate of the engine instead of None
Failure_with_rate(msg) == <<FALSE, msg, <<24000>>>>

\* return False, <message>, None
Failure(msg) == <<FALSE, msg, <<>>>>

\* return True, audio_data, sample_rate
Success(audio_data, sample_rate) == <<TRUE, audio_data, <<sample_rate>>>>

\* generate_speech returns a failure and the route answers it
DispatcherFailure(t, msg, newobs) ==
    RouteFailure(t, msg, [newobs EXCEPT !.returned = Failure(msg)])

\* HybridTTSService.generate_speech, up to the loader's test of the cached model
generate_speech(t) ==
    /\ service = "hybrid"
    /\ pc[t] = "dispatch"
    /\ LET voice_name == loc[t].voice
           seen == [obs[t] EXCEPT !.dispatched = TRUE]
       IN  IF ~InVoiceConfig(voice_name)
           THEN DispatcherFailure(t, <<"Unknown voice: ">> \o voice_name, seen)
                /\ UNCHANGED lastLoad
           ELSE LET cfg == voice_config[voice_name[1]]
                    chosen == [loc[t] EXCEPT !.engine = cfg.engine,
                                             !.requested = cfg.engine,
                                             !.language = cfg.language]
                IN  IF cfg.audio_file \notin reference_audio
                    THEN /\ DispatcherFailure(t, <<"Reference audio not found: ">>
                                                    \o cfg.audio_file, seen)
                         /\ UNCHANGED lastLoad
                    ELSE IF Model(cfg.engine) # None
                    THEN /\ Step(t, "call", chosen, resp[t],
                                 [seen EXCEPT !.loader = "cached",
                                              !.prior = get(lastLoad, cfg.engine, None)])
                         /\ lastLoad' = Put(lastLoad, cfg.engine, Model(cfg.engine))
                    ELSE /\ Step(t, "loading", chosen, resp[t], seen)
                         /\ UNCHANGED lastLoad
    /\ UNCHANGED <<service, voice_config, patches, hash_seed, cli, reference_audio, chatterbox_model, xtts_model,
                   tts_models, model_lock, output_dir, issued, inits, failedKeys,
                   accepted, req>>

\* the model attribute assigned before the step of the initializer that raises
loader_store_partial(ok, fresh, current) == fresh

\* what the model attribute holds after the initializer returned (ok) or raised
loader_store(ok, fresh, current) == IF ok THEN fresh ELSE current

\* the loader's result: True after the initializer returned, False after it raised
loader_result(ok) == ok

\* the outcome of the initializer as the rest of a load of key sees it
LoadOutcome(t, key, ok, fresh) ==
    /\ inits' = [inits EXCEPT ![key] = IF ok THEN @ + 1 ELSE @]
    /\ IF loader_result(ok)
       THEN /\ Step(t, "call", loc[t], resp[t],
                    [obs[t] EXCEPT !.loader = "ok",
                                   !.tried = Append(@, ok),
                                   !.made = IF ok THEN fresh ELSE None,
                                   !.prior = get(lastLoad, key, None)])
            /\ lastLoad' = Put(lastLoad, key, loader_store(ok, fresh, Model(key)))
            /\ UNCHANGED failedKeys
       ELSE /\ failedKeys' = failedKeys \cup {key}
            /\ DispatcherFailure(t, <<"Failed to load ", key>>,
                                 [obs[t] EXCEPT !.loader = "failed",
                                                !.tried = Append(@, ok)])
            /\ UNCHANGED lastLoad

\* HybridTTSService._load_chatterbox: ChatterboxTTS.from_pretrained returns or raises
load_chatterbox(t, ok) ==
    /\ service = "hybrid"
    /\ pc[t] = "loading"
    /\ loc[t].engine = "chatterbox"
    /\ LET fresh == NewHandle("chatterbox", "chatterbox")
       IN  /\ chatterbox_model' = loader_store(ok, fresh, chatterbox_model)
           /\ LoadOutcome(t, "chatterbox", ok, fresh)
    /\ UNCHANGED <<service, voice_config, patches, hash_seed, cli, reference_audio, xtts_model, tts_models, model_lock,
                   output_dir, issued, accepted, req>>

\* torch.load = patched_load: one more wrapper around what torch.load was
patched_load(original_load) == original_load + 1

\* _load_xtts: what torch.load is when the loader returns; no statement of it
\* assigns original_load back
xtts_torch_load(ok, original_load, patched) == patched

\* HybridTTSService._load_xtts: TTS("...xtts_v2") returns or raises
load_xtts(t, ok) ==
    /\ service = "hybrid"
    /\ pc[t] = "loading"
    /\ loc[t].engine = "xtts"
    /\ LET fresh == NewHandle("xtts", "xtts_v2")
       IN  /\ xtts_model' = loader_store(ok, fresh, xtts_model)
           /\ torch_load' = xtts_torch_load(ok, torch_load, patched_load(torch_load))
           /\ LoadOutcome(t, "xtts", ok, fresh)
    /\ UNCHANGED <<service, voice_config, temp_files, hash_seed, cli, reference_audio, chatterbox_model, tts_models,
                   model_lock, output_dir, issued, accepted, req>>

\* the text argument of chatterbox_model.generate / xtts_model.tts_to_file
hybrid_model_text(text) == text

\* the sample rate a model produces: XTTS v2 and Chatterbox 24000 Hz, the
\* single-language Coqui models (pt/cv/vits, ljspeech/tacotron2-DDC) 22050 Hz
NativeRate(model) ==
    IF model \in {"chatterbox", "xtts_v2",
                  "tts_models/multilingual/multi-dataset/xtts_v2"}
    THEN 24000 ELSE 22050

\* tempfile.NamedTemporaryFile(suffix='.wav', delete=False): a name no other
\* call gets
TempName(t) == <<"tmp", obs[t].serial, ".wav">>

\* the temporary file left in place when the call did not succeed
unlink_on_success(files, temp_output, ok) ==
    IF ok THEN files \ {temp_output} ELSE files

\* finally: if os.path.exists(temp_output): os.unlink(temp_output)
unlink(files, temp_output, ok) == files \ {temp_output}

\* self.chatterbox_model.generate(...) / self.xtts_model.tts_to_file(...) is
\* entered; _generate_xtts has created its temporary file
hybrid_model_call(t) ==
    /\ service = "hybrid"
    /\ pc[t] = "call"
    /\ LET xtts == loc[t].engine = "xtts"
       IN  /\ temp_files' = IF xtts THEN temp_files \cup {TempName(t)}
                                    ELSE temp_files
           /\ Step(t, "in_model",
                   [loc[t] EXCEPT !.handle = Model(loc[t].engine),
                                  !.handed = hybrid_model_text(loc[t].text),
                                  !.with_language = xtts,
                                  !.with_speaker_wav = TRUE],
                   resp[t],
                   [obs[t] EXCEPT !.temp = IF xtts THEN TempName(t) ELSE <<>>])
    /\ UNCHANGED <<service, voice_config, torch_load, hash_seed, cli,
                   reference_audio, shared, accepted, req>>

\* what sf.write(path, ...) does to the output directory: it writes the file,
\* or raises before the file is opened, or raises after it opened the file
WriteOutcomes == {"ok", "refused", "truncated"}

Truncated == <<"truncated">>

\* the output directory after sf.write(path, wave, rate) ended with outcome
sf_write(dir, name, wave, outcome) ==
    IF outcome = "ok" THEN Put(dir, name, wave)
    ELSE IF outcome = "truncated" THEN Put(dir, name, Truncated)
    ELSE dir

\* the model invocation returns or raises, _generate_xtts reads its temporary
\* file back and removes it, generate_speech returns, and the route answers
hybrid_model_return(t, outcome, read_ok, written) ==
    /\ service = "hybrid"
    /\ pc[t] = "in_model"
    /\ LET xtts == loc[t].engine = "xtts"
           ok == outcome = "ok" /\ (xtts => read_ok)
           text == IF outcome # "ok" THEN outcome ELSE "Error opening file"
           label == IF xtts THEN "XTTS v2 generation failed: "
                    ELSE "Chatterbox generation failed: "
           sample_rate == NativeRate(loc[t].handle.model)
           result == IF ok THEN Success(Wave(t), sample_rate)
                     ELSE Failure(<<label, text>>)
           told == [obs[t] EXCEPT !.inference = IF outcome = "ok" THEN "ok"
                                                ELSE "raised",
                                  !.calls = Append(@, Call(t, outcome)),
                                  !.exception = IF ok THEN @ ELSE text,
                                  !.io = IF outcome = "ok" /\ ~ok THEN "failed"
                                         ELSE @,
                                  !.returned = result]
           name == output_filename(
                       get(req[t].body, "text", <<>>),
                       get(req[t].body, "reference_audio_filename", <<>>))
       IN  /\ temp_files' = IF xtts THEN unlink(temp_files, obs[t].temp, ok)
                                    ELSE temp_files
           /\ IF route_status(ok) # 200
              THEN /\ Step(t, "done", loc[t],
                           JsonError(route_status(ok), result[2]), told)
                   /\ UNCHANGED <<output_dir, issued>>
              ELSE IF req[t].endpoint = "/generate"
              THEN /\ Step(t, "done", loc[t], WavFile(Wave(t)), told)
                   /\ UNCHANGED <<output_dir, issued>>
              ELSE /\ output_dir' = sf_write(output_dir, name, Wave(t), written)
                   /\ IF written = "ok"
                      THEN /\ issued' = issued \cup {Link(t, name)}
                           /\ Step(t, "done", loc[t], JsonLink(name),
                                   [told EXCEPT !.rate = <<sample_rate>>])
                      ELSE /\ UNCHANGED issued
                           /\ Step(t, "done", loc[t],
                                   JsonError(500, <<"Erro interno do servidor: ",
                                                    "Error opening file">>),
                                   [told EXCEPT !.io = "failed"])
    /\ UNCHANGED <<service, voice_config, torch_load, hash_seed, cli,
                   reference_audio, chatterbox_model, xtts_model, tts_models,
                   model_lock, inits, failedKeys, lastLoad, accepted, req>>

\* GET /health
HealthRequest == [endpoint |-> "/health", json |-> FALSE, body |-> <<>>]

\* health_check of the hybrid service: the list the response carries besides
\* its constant status and service name
hybrid_health_check(t) ==
    /\ Accept(t, HealthRequest)
    /\ Step(t, "done", NoLoc,
            [status |-> 200, type |-> "json",
             body |-> <<"voices", DOMAIN voice_config>>],
            FreshObs)
    /\ UNCHANGED <<service, voice_config, patches, hash_seed, cli, reference_audio, shared>>

----------------------------------------------------------------------------
(* tts_service_backup.py *)

XTTS_V2 == "tts_models/multilingual/multi-dataset/xtts_v2"

\* the sample rate argument of sf.write in the /api/tts services
WriteRate == 24000

MODELS == [pt |-> XTTS_V2, en |-> XTTS_V2, es |-> XTTS_V2, multilingual |-> XTTS_V2]

VOICE_LANGUAGES ==
    [Charlotte |-> "en", Hamilton |-> "en", Noel |-> "es", Pilar |-> "es",
     Paulo |-> "pt", Ines |-> "pt"]

\* the language of the request used whatever the voice file is
voice_language_requested(reference_audio_filename, language) == language

\* VOICE_LANGUAGES.get(reference_audio_filename, language)
voice_language(reference_audio_filename, language) ==
    IF /\ Len(reference_audio_filename) = 2
       /\ reference_audio_filename[2] = ".WAV"
       /\ reference_audio_filename[1] \in DOMAIN VOICE_LANGUAGES
    THEN VOICE_LANGUAGES[reference_audio_filename[1]]
    ELSE language

\* text.replace('"', '').replace("'", "")
sanitize(text) == replace(replace(text, DQ), SQ)

\* load_model: language not in tts_models
cache_miss(language) == language \notin DOMAIN tts_models

\* load_model: the language whose model is loaded and under which it is stored
resolve_language(language) ==
    IF language \in DOMAIN MODELS THEN language ELSE "pt"

\* load_model: the models tried, in order
Candidates(language) == <<MODELS[language], MODELS["multilingual"], MODELS["en"]>>

\* the checks of handle_tts_request before it calls generate_speech
backup_validation(r) ==
    IF ~r.json THEN JsonError(500, <<"Erro interno do servidor">>)
    ELSE IF get(r.body, "reference_audio_filename", <<>>) = <<>>
    THEN JsonError(400, <<"reference_audio_filename obrigatorio">>)
    ELSE NoResp

\* POST /api/tts, up to the call of generate_speech
backup_handle_tts_request(t, r) ==
    /\ Accept(t, r)
    /\ LET refusal == backup_validation(r)
       IN  IF refusal # NoResp
           THEN Step(t, "done", NoLoc, refusal, FreshObs)
           ELSE Step(t, "dispatch",
                     [NoLoc EXCEPT
                        !.text = get(r.body, "text", <<>>),
                        !.voice = get(r.body, "reference_audio_filename", <<>>),
                        !.requested = get(r.body, "language", "pt")],
                     NoResp, FreshObs)
    /\ UNCHANGED <<service, voice_config, patches, hash_seed, cli, reference_audio, shared>>

\* generate_speech, up to load_model's test of the cache
backup_generate_speech(t) ==
    /\ service = "backup"
    /\ pc[t] = "dispatch"
    /\ LET language == voice_language(loc[t].voice, loc[t].requested)
           seen == [obs[t] EXCEPT !.dispatched = TRUE]
       IN  IF cache_miss(language)
           THEN Step(t, "init",
                     [loc[t] EXCEPT !.handed = sanitize(loc[t].text),
                                    !.requested = language,
                                    !.language = resolve_language(language),
                                    !.candidate = 1],
                     resp[t], seen)
           ELSE Step(t, "return_model",
                     [loc[t] EXCEPT !.handed = sanitize(loc[t].text),
                                    !.requested = language,
                                    !.language = language],
                     resp[t], [seen EXCEPT !.loader = "cached"])
    /\ UNCHANGED <<service, voice_config, patches, hash_seed, cli, reference_audio, shared, accepted, req>>

\* load_model: what torch.load is after TTS(model_name=model_name) returned
\* (torch.load = original_load) or raised (the except clause leaves it)
backup_torch_load(ok, original_load, patched) ==
    IF ok THEN original_load ELSE patched

\* load_model: TTS(model_name=...) of the current candidate returns or raises
load_model_attempt(t, ok) ==
    /\ service = "backup"
    /\ pc[t] = "init"
    /\ LET language == loc[t].language
           models == Candidates(language)
           fresh == NewHandle(language, models[loc[t].candidate])
           tried == Append(obs[t].tried, ok)
       IN  /\ torch_load' = IF loc[t].candidate = 1
                             THEN backup_torch_load(ok, torch_load,
                                                    patched_load(torch_load))
                             ELSE torch_load
           /\ IF ok
              THEN /\ tts_models' = Put(tts_models, language, fresh)
                   /\ inits' = [inits EXCEPT ![language] = @ + 1]
                   /\ Step(t, "return_model", loc[t], resp[t],
                           [obs[t] EXCEPT !.loader = "ok", !.tried = tried,
                                          !.made = fresh])
                   /\ UNCHANGED failedKeys
              ELSE IF loc[t].candidate < Len(models)
              THEN /\ Step(t, "init", [loc[t] EXCEPT !.candidate = @ + 1],
                           resp[t], [obs[t] EXCEPT !.tried = tried])
                   /\ UNCHANGED <<tts_models, inits, failedKeys>>
              ELSE \* raise e3: generate_speech returns False
                   /\ failedKeys' = failedKeys \cup {language}
                   /\ RouteFailure(t, <<"Falha ao gerar audio">>,
                                   [obs[t] EXCEPT !.loader = "failed",
                                                  !.tried = tried])
                   /\ UNCHANGED <<tts_models, inits>>
    /\ UNCHANGED <<service, voice_config, temp_files, hash_seed, cli, reference_audio, chatterbox_model, xtts_model,
                   model_lock, output_dir, issued, lastLoad, accepted, req>>

\* load_model: return tts_models[language]
load_model_return(t) ==
    /\ service = "backup"
    /\ pc[t] = "return_model"
    /\ Step(t, "wait_lock",
            [loc[t] EXCEPT !.handle = tts_models[loc[t].language]],
            resp[t],
            [obs[t] EXCEPT !.prior = get(lastLoad, loc[t].requested, None)])
    /\ lastLoad' = Put(lastLoad, loc[t].requested, tts_models[loc[t].language])
    /\ UNCHANGED <<service, voice_config, patches, hash_seed, cli, reference_audio, chatterbox_model, xtts_model,
                   tts_models, model_lock, output_dir, issued, inits, failedKeys,
                   accepted, req>>

\* hasattr(tts_model, 'tts') and 'speaker_wav' in tts_model.tts.__code__.co_varnames:
\* every handle is a TTS.api.TTS, whose tts method declares speaker_wav
has_speaker_wav == TRUE

\* the lock released only when the locked section ends without an exception
lock_exit_on_return(t, raised) == IF raised THEN t ELSE 0

\* with model_lock: the owner of the lock after the locked section ended, by
\* running to its end or by an exception
lock_exit(t, raised) == 0

\* the lock taken around load_model too: no thread is in the initializer
lock_free_and_no_load(t) ==
    model_lock = 0 /\ \A u \in Threads : pc[u] \notin {"init", "loading"}

\* with model_lock: the lock is free for thread t to take
lock_free(t) == model_lock = 0

\* generate_speech: with model_lock is entered and tts_model.tts(...) is called
backup_lock_acquire(t) ==
    /\ service = "backup"
    /\ pc[t] = "wait_lock"
    /\ lock_free(t)
    /\ model_lock' = t
    /\ Step(t, "in_model",
            [loc[t] EXCEPT !.with_language = TRUE,
                           !.with_speaker_wav =
                               has_speaker_wav /\ loc[t].voice \in reference_audio],
            resp[t], obs[t])
    /\ UNCHANGED <<service, voice_config, patches, hash_seed, cli, reference_audio, chatterbox_model, xtts_model,
                   tts_models, output_dir, issued, inits, failedKeys, lastLoad,
                   accepted, req>>

\* the except clause of a tts call: retry without language, or raise again
retries(outcome, with_language) == is_language_error(outcome) /\ with_language

\* generate_speech: tts_model.tts(...) returns or raises
backup_tts_return(t, outcome) ==
    /\ service = "backup"
    /\ pc[t] = "in_model"
    /\ LET called == [obs[t] EXCEPT !.calls = Append(@, Call(t, outcome))]
       IN  IF outcome = "ok"
           THEN /\ model_lock' = lock_exit(t, FALSE)
                /\ Step(t, "writing", loc[t], resp[t],
                        [called EXCEPT !.inference = "ok"])
           ELSE IF retries(outcome, loc[t].with_language)
           THEN /\ Step(t, "in_model", [loc[t] EXCEPT !.with_language = FALSE],
                        resp[t], called)
                /\ UNCHANGED model_lock
           ELSE /\ model_lock' = lock_exit(t, TRUE)
                /\ RouteFailure(t, <<"Falha ao gerar audio">>,
                                [called EXCEPT !.inference = "raised",
                                               !.exception = outcome])
    /\ UNCHANGED <<service, voice_config, patches, hash_seed, cli, reference_audio, chatterbox_model, xtts_model,
                   tts_models, output_dir, issued, inits, failedKeys, lastLoad,
                   accepted, req>>

\* generate_speech: sf.write(output_path, wav, 24000) returns or raises, and
\* the handler answers
backup_write(t, written) ==
    /\ service = "backup"
    /\ pc[t] = "writing"
    /\ LET name == output_filename(
                       get(req[t].body, "text", <<>>),
                       get(req[t].body, "reference_audio_filename", <<>>))
       IN  /\ output_dir' = sf_write(output_dir, name, Wave(t), written)
           /\ IF written = "ok"
              THEN /\ issued' = issued \cup {Link(t, name)}
                   /\ Step(t, "done", loc[t], JsonLink(name),
                           [obs[t] EXCEPT !.rate = <<WriteRate>>])
              ELSE /\ UNCHANGED issued
                   /\ RouteFailure(t, <<"Falha ao gerar audio">>,
                                   [obs[t] EXCEPT !.io = "failed"])
    /\ UNCHANGED <<service, voice_config, patches, hash_seed, cli,
                   reference_audio, chatterbox_model, xtts_model, tts_models,
                   model_lock, inits, failedKeys, lastLoad, accepted, req>>

\* health_check of tts_service_backup: the list the response carries besides
\* its constant status
backup_health_check(t) ==
    /\ Accept(t, HealthRequest)
    /\ Step(t, "done", NoLoc,
            [status |-> 200, type |-> "json",
             body |-> <<"models_loaded", DOMAIN tts_models>>],
            FreshObs)
    /\ UNCHANGED <<service, voice_config, patches, hash_seed, cli, reference_audio, shared>>

----------------------------------------------------------------------------
(* tts_service.py *)

\* (REFERENCE_AUDIO_DIR / reference_audio).exists(): the directory itself for ''
ref_path_exists(reference_audio_name) ==
    reference_audio_name = <<>> \/ reference_audio_name \in reference_audio

MODEL_NAME == "tts_models/pt/cv/vits"

MODEL_NAME_FALLBACK == "tts_models/en/ljspeech/tacotron2-DDC"

\* bodies of POST /api/tts of tts_service
SimpleRequests ==
    {NoJson("/api/tts")}
        \cup {Json("/api/tts",
                   Object("text", tx, "reference_audio_filename", rf,
                          "language", Absent)) :
                tx \in Opt({<<"Hi">>}),
                rf \in Opt({<<"Charlotte", ".WAV">>, <<"Pilar", ".WAV">>})}

ConcSimpleRequests ==
    {Json("/api/tts", [text |-> <<"Hi">>,
                       reference_audio_filename |-> <<"Charlotte", ".WAV">>])}

\* POST /api/tts, up to with model_lock in generate_speech
simple_handle_tts_request(t, r) ==
    /\ Accept(t, r)
    /\ LET refusal == backup_validation(r)
       IN  IF refusal # NoResp
           THEN Step(t, "done", NoLoc, refusal, FreshObs)
           ELSE Step(t, "wait_lock",
                     [NoLoc EXCEPT
                        !.text = get(r.body, "text", <<>>),
                        !.voice = get(r.body, "reference_audio_filename", <<>>),
                        !.requested = get(r.body, "language", "pt"),
                        !.language = get(r.body, "language", "pt"),
                        !.handed = sanitize(get(r.body, "text", <<>>)),
                        !.handle = tts_models["tts_model"]],
                     NoResp, [FreshObs EXCEPT !.dispatched = TRUE])
    /\ UNCHANGED <<service, voice_config, patches, hash_seed, cli,
                   reference_audio, shared>>

\* generate_speech: with model_lock is entered and tts_model.tts(...) is called,
\* with the reference file and the language when the file exists
simple_lock_acquire(t) ==
    /\ service = "tts_service"
    /\ pc[t] = "wait_lock"
    /\ lock_free(t)
    /\ model_lock' = t
    /\ LET cloning == has_speaker_wav /\ ref_path_exists(loc[t].voice)
       IN  Step(t, "in_model",
                [loc[t] EXCEPT !.with_language = cloning,
                               !.with_speaker_wav = cloning],
                resp[t], obs[t])
    /\ UNCHANGED <<service, voice_config, patches, hash_seed, cli,
                   reference_audio, chatterbox_model, xtts_model, tts_models,
                   output_dir, issued, inits, failedKeys, lastLoad,
                   accepted, req>>

\* generate_speech: tts_model.tts(...) returns or raises
simple_tts_return(t, outcome) ==
    /\ service = "tts_service"
    /\ pc[t] = "in_model"
    /\ LET called == [obs[t] EXCEPT !.calls = Append(@, Call(t, outcome))]
       IN  IF outcome = "ok"
           THEN /\ model_lock' = lock_exit(t, FALSE)
                /\ Step(t, "writing", loc[t], resp[t],
                        [called EXCEPT !.inference = "ok"])
           ELSE /\ model_lock' = lock_exit(t, TRUE)
                /\ RouteFailure(t, <<"Falha ao gerar audio">>,
                                [called EXCEPT !.inference = "raised",
                                               !.exception = outcome])
    /\ UNCHANGED <<service, voice_config, patches, hash_seed, cli,
                   reference_audio, chatterbox_model, xtts_model, tts_models,
                   output_dir, issued, inits, failedKeys, lastLoad,
                   accepted, req>>

\* generate_speech: sf.write(output_path, wav, 24000) returns or raises, and
\* the handler answers
simple_write(t, written) ==
    /\ service = "tts_service"
    /\ pc[t] = "writing"
    /\ LET name == output_filename(
                       get(req[t].body, "text", <<>>),
                       get(req[t].body, "reference_audio_filename", <<>>))
       IN  /\ output_dir' = sf_write(output_dir, name, Wave(t), written)
           /\ IF written = "ok"
              THEN /\ issued' = issued \cup {Link(t, name)}
                   /\ Step(t, "done", loc[t], JsonLink(name),
                           [obs[t] EXCEPT !.rate = <<WriteRate>>])
              ELSE /\ UNCHANGED issued
                   /\ RouteFailure(t, <<"Falha ao gerar audio">>,
                                   [obs[t] EXCEPT !.io = "failed"])
    /\ UNCHANGED <<service, voice_config, patches, hash_seed, cli,
                   reference_audio, chatterbox_model, xtts_model, tts_models,
                   model_lock, inits, failedKeys, lastLoad, accepted, req>>

----------------------------------------------------------------------------
(* generate_audio.py: one request read from standard input *)

\* what standard input holds: text that is no JSON, or a JSON object
CliInputs ==
    {NoJson("stdin")}
        \cup {Json("stdin", Object("text", tx, "reference_audio", rf, "-", Absent)) :
                tx \in Opt({<<"Hi">>, <<DQ, "Hi">>}),
                rf \in Opt({<<"Charlotte", ".WAV">>, <<"Pilar", ".WAV">>})}

\* print(json.dumps(response), flush=True): written to the stream sys.stdout names
print(response) ==
    IF sys_stdout = "stdout" THEN Append(stdout, response) ELSE stdout

\* {"success": False, "error": ...}
CliFailure(msg) == [success |-> FALSE, detail |-> msg]

\* {"success": True, "output_path": ...}
CliSuccess(name) == [success |-> TRUE, detail |-> name]

\* main, up to load_model() in generate_speech
cli_main(input) ==
    /\ service = "cli"
    /\ pc[1] = "idle"
    /\ Accept(1, input)
    /\ IF ~input.json
       THEN /\ stdout' = print(CliFailure(<<"Erro ao decodificar JSON">>))
            /\ Step(1, "done", NoLoc, NoResp, FreshObs)
       ELSE /\ Step(1, "cli_load",
                    [NoLoc EXCEPT !.text = get(input.body, "text", <<>>),
                                  !.voice = get(input.body, "reference_audio", <<>>)],
                    NoResp, [FreshObs EXCEPT !.dispatched = TRUE])
            /\ UNCHANGED stdout
    /\ UNCHANGED <<service, voice_config, patches, hash_seed, sys_stdout, reference_audio, shared>>

\* generate_speech: load_model() returns or raises, then the reference file is
\* looked up, the text is cleaned and sys.stdout is made to name stderr
cli_load_model(ok) ==
    /\ service = "cli"
    /\ pc[1] = "cli_load"
    /\ IF ~ok
       THEN /\ stdout' = print(CliFailure(<<"Falha ao gerar audio">>))
            /\ Step(1, "done", loc[1], NoResp, [obs[1] EXCEPT !.loader = "failed"])
            /\ UNCHANGED sys_stdout
       ELSE IF ~ref_path_exists(loc[1].voice)
       THEN /\ stdout' = print(CliFailure(<<"Falha ao gerar audio">>))
            /\ Step(1, "done", loc[1], NoResp, [obs[1] EXCEPT !.loader = "ok"])
            /\ UNCHANGED sys_stdout
       ELSE /\ sys_stdout' = "stderr"
            /\ Step(1, "in_model",
                    [loc[1] EXCEPT !.handed = sanitize(loc[1].text),
                                   !.with_language = TRUE,
                                   !.with_speaker_wav = TRUE],
                    NoResp, [obs[1] EXCEPT !.loader = "ok"])
            /\ UNCHANGED stdout
    /\ UNCHANGED <<service, voice_config, patches, hash_seed, reference_audio, shared, accepted, req>>

\* generate_speech: tts.tts(...) returns or raises; main prints the response
cli_tts(outcome) ==
    /\ service = "cli"
    /\ pc[1] = "in_model"
    /\ LET name == output_filename(loc[1].text, loc[1].voice)
           called == [obs[1] EXCEPT !.calls = Append(@, Call(1, outcome))]
       IN  IF outcome = "ok"
           THEN /\ sys_stdout' = "stdout"
                /\ output_dir' = Put(output_dir, name, Wave(1))
                /\ stdout' = IF sys_stdout' = "stdout"
                             THEN Append(stdout, CliSuccess(name)) ELSE stdout
                /\ Step(1, "done", loc[1], NoResp,
                        [called EXCEPT !.inference = "ok"])
           ELSE /\ stdout' = print(CliFailure(<<"Falha ao gerar audio">>))
                /\ Step(1, "done", loc[1], NoResp,
                        [called EXCEPT !.inference = "raised",
                                       !.exception = outcome])
                /\ UNCHANGED <<sys_stdout, output_dir>>
    /\ UNCHANGED <<service, voice_config, patches, hash_seed, reference_audio, chatterbox_model,
                   xtts_model, tts_models, model_lock, issued, inits,
                   failedKeys, lastLoad, accepted, req>>

CliSteps ==
    \/ \E input \in CliInputs : cli_main(input)
    \/ \E ok \in BOOLEAN : cli_load_model(ok)
    \/ \E outcome \in ModelOutcomes : cli_tts(outcome)

----------------------------------------------------------------------------
(* short-creator/libraries/generate_speech.py: one call from the command line *)

\* str.replace(tok, by)
RECURSIVE substitute(_, _, _)
substitute(s, tok, by) ==
    IF s = <<>> THEN <<>>
    ELSE <<IF Head(s) = tok THEN by ELSE Head(s)>> \o substitute(Tail(s), tok, by)

NL == "\n"

\* text.strip().replace("\n", " "), then .strip().replace(".", ", ")
preprocess(text) == substitute(strip(substitute(strip(text), NL, SP)), ".", ", ")

\* language_map.get(language, "pt")
language_map(language) == IF language \in {"pt", "en"} THEN language ELSE "pt"

\* --output
OutputPath == <<"out", ".wav">>

\* the audio a run before this one left at the output path
Stale == <<"stale">>

\* the command lines: --text, --reference, --language
SpeechArgs ==
    {[endpoint |-> "argv", json |-> FALSE,
      body |-> [text |-> tx, reference |-> <<"Paulo", ".WAV">>, language |-> lg]] :
        tx \in {<<"Hi">>, <<SP, "Hi", ".">>, <<"Hi", NL>>},
        lg \in {"pt", "en", "fr"}}

\* os.remove(output_path) if os.path.exists(output_path)
remove(dir, path) == [name \in DOMAIN dir \ {path} |-> dir[name]]

\* generate_speech, up to tts.tts_to_file: TTS(...) returns or raises; when it
\* returned, the previous output is removed and the text is prepared
speech_generate_speech(args, ok) ==
    /\ service = "speech"
    /\ pc[1] = "idle"
    /\ Accept(1, args)
    /\ IF ~ok
       THEN /\ Step(1, "done", NoLoc, NoResp,
                    [FreshObs EXCEPT !.dispatched = TRUE, !.loader = "failed"])
            /\ UNCHANGED output_dir
       ELSE /\ output_dir' = remove(output_dir, OutputPath)
            /\ Step(1, "in_model",
                    [NoLoc EXCEPT !.text = args.body.text,
                                  !.voice = args.body.reference,
                                  !.requested = args.body.language,
                                  !.language = language_map(args.body.language),
                                  !.handed = preprocess(args.body.text),
                                  !.with_language = TRUE,
                                  !.with_speaker_wav = TRUE],
                    NoResp,
                    [FreshObs EXCEPT !.dispatched = TRUE, !.loader = "ok"])
    /\ UNCHANGED <<service, voice_config, patches, hash_seed, cli,
                   reference_audio, chatterbox_model, xtts_model, tts_models,
                   model_lock, issued, inits, failedKeys, lastLoad>>

\* tts.tts_to_file(...) writes the audio to output_path and returns, or raises
speech_tts_to_file(outcome) ==
    /\ service = "speech"
    /\ pc[1] = "in_model"
    /\ LET called == [obs[1] EXCEPT !.calls = Append(@, Call(1, outcome))]
       IN  IF outcome = "ok"
           THEN /\ output_dir' = Put(output_dir, OutputPath, Wave(1))
                /\ Step(1, "done", loc[1], NoResp,
                        [called EXCEPT !.inference = "ok"])
           ELSE /\ UNCHANGED output_dir
                /\ Step(1, "done", loc[1], NoResp,
                        [called EXCEPT !.inference = "raised",
                                       !.exception = outcome])
    /\ UNCHANGED <<service, voice_config, patches, hash_seed, cli,
                   reference_audio, chatterbox_model, xtts_model, tts_models,
                   model_lock, issued, inits, failedKeys, lastLoad,
                   accepted, req>>

SpeechSteps ==
    \/ \E args \in SpeechArgs, ok \in BOOLEAN : speech_generate_speech(args, ok)
    \/ \E outcome \in ModelOutcomes : speech_tts_to_file(outcome)

----------------------------------------------------------------------------
(* Specifications *)

InitCommon ==
    /\ torch_load = 0
    /\ temp_files = {}
    /\ chatterbox_model = None
    /\ xtts_model = None
    /\ model_lock = 0
    /\ accepted = 0
    /\ failedKeys = {}
    /\ issued = {}
    /\ hash_seed \in HashSeeds
    /\ sys_stdout = "stdout"
    /\ stdout = <<>>
    /\ pc = [t \in Threads |-> "idle"]
    /\ req = [t \in Threads |-> NoReq]
    /\ loc = [t \in Threads |-> NoLoc]
    /\ resp = [t \in Threads |-> NoResp]
    /\ obs = [t \in Threads |-> NoObs]

\* hybrid_tts_service is imported: hybrid_tts = HybridTTSService()
InitHybrid ==
    /\ service = "hybrid"
    /\ output_dir = <<>>
    /\ voice_config = VoiceRegistry
    /\ tts_models = <<>>
    /\ inits = [k \in Keys |-> 0]
    /\ lastLoad = <<>>
    /\ reference_audio = AllReferenceFiles \ {<<"Pilar", ".WAV">>}
    /\ InitCommon

\* tts_service_backup.main(): load_model("pt") returned and app.run serves
InitBackup ==
    /\ service = "backup"
    /\ output_dir = <<>>
    /\ voice_config = VoiceRegistry
    /\ tts_models = [k \in {"pt"} |-> [key |-> "pt", n |-> 1, model |-> XTTS_V2]]
    /\ inits = [k \in Keys |-> IF k = "pt" THEN 1 ELSE 0]
    /\ lastLoad = tts_models
    /\ reference_audio = AllReferenceFiles \ {<<"Pilar", ".WAV">>}
    /\ InitCommon

\* python generate_audio.py is started
InitCli ==
    /\ service = "cli"
    /\ output_dir = <<>>
    /\ voice_config = VoiceRegistry
    /\ tts_models = <<>>
    /\ inits = [k \in Keys |-> 0]
    /\ lastLoad = <<>>
    /\ reference_audio = AllReferenceFiles \ {<<"Pilar", ".WAV">>}
    /\ InitCommon

\* tts_service.main(): load_model() returned with the model or with its
\* fallback, and app.run serves
InitSimple ==
    /\ service = "tts_service"
    /\ output_dir = <<>>
    /\ voice_config = VoiceRegistry
    /\ \E model_name \in {MODEL_NAME, MODEL_NAME_FALLBACK} :
          tts_models = [k \in {"tts_model"} |->
                           [key |-> "tts_model", n |-> 1, model |-> model_name]]
    /\ inits = [k \in Keys |-> 0]
    /\ lastLoad = <<>>
    /\ reference_audio = AllReferenceFiles \ {<<"Pilar", ".WAV">>}
    /\ InitCommon

\* python generate_speech.py is started; the output path holds the audio of an
\* earlier run, or nothing
InitSpeech ==
    /\ service = "speech"
    /\ output_dir \in {<<>>, [name \in {OutputPath} |-> Stale]}
    /\ voice_config = VoiceRegistry
    /\ tts_models = <<>>
    /\ inits = [k \in Keys |-> 0]
    /\ lastLoad = <<>>
    /\ reference_audio = AllReferenceFiles \ {<<"Pilar", ".WAV">>}
    /\ InitCommon

Init == InitHybrid \/ InitBackup \/ InitCli \/ InitSimple \/ InitSpeech

\* GET /api/download/<filename> with a link that an /api/tts response carried:
\* download_file of either service sends the file of that name in data/temp
download_file(t, link) ==
    /\ Idle(t)
    /\ link \in issued
    /\ req' = [req EXCEPT ![t] = [endpoint |-> "/api/download", json |-> FALSE,
                                  body |-> link]]
    /\ Step(t, "done", NoLoc,
            IF link.name \in DOMAIN output_dir
            THEN WavFile(output_dir[link.name])
            ELSE JsonError(404, <<"Not Found">>),
            NoObs)
    /\ UNCHANGED <<service, voice_config, patches, hash_seed, cli, reference_audio, shared, accepted>>

\* the service process is stopped and started again: what it held in memory is
\* as at its first start, a new hash seed is drawn, the files of data/temp and
\* the links the clients hold stay; the restarts followed are those between two
\* requests, with a link handed out
restart ==
    /\ service \in {"hybrid", "backup", "tts_service"}
    /\ issued # {}
    /\ accepted < MaxRequests
    /\ \A t \in Threads : Idle(t)
    /\ hash_seed' \in HashSeeds
    /\ chatterbox_model' = None
    /\ xtts_model' = None
    /\ model_lock' = 0
    /\ failedKeys' = {}
    /\ IF service = "hybrid"
       THEN /\ tts_models' = <<>>
            /\ inits' = [k \in Keys |-> 0]
            /\ lastLoad' = <<>>
       ELSE IF service = "tts_service"
       THEN /\ \E model_name \in {MODEL_NAME, MODEL_NAME_FALLBACK} :
                  tts_models' = [k \in {"tts_model"} |->
                                    [key |-> "tts_model", n |-> 1,
                                     model |-> model_name]]
            /\ UNCHANGED <<inits, lastLoad>>
       ELSE /\ tts_models' = [k \in {"pt"} |->
                                 [key |-> "pt", n |-> 1, model |-> XTTS_V2]]
            /\ inits' = [k \in Keys |-> IF k = "pt" THEN 1 ELSE 0]
            /\ lastLoad' = tts_models'
    /\ pc' = [t \in Threads |-> "idle"]
    /\ req' = [t \in Threads |-> NoReq]
    /\ loc' = [t \in Threads |-> NoLoc]
    /\ resp' = [t \in Threads |-> NoResp]
    /\ obs' = [t \in Threads |-> NoObs]
    /\ torch_load' = 0
    /\ UNCHANGED <<service, voice_config, temp_files, cli, reference_audio,
                   output_dir, issued, accepted>>

HybridSteps(t) ==
    \/ generate_speech(t)
    \/ \E ok \in BOOLEAN : load_chatterbox(t, ok)
    \/ \E ok \in BOOLEAN : load_xtts(t, ok)
    \/ hybrid_model_call(t)
    \/ \E outcome \in ModelOutcomes, read_ok \in BOOLEAN, written \in WriteOutcomes :
          hybrid_model_return(t, outcome, read_ok, written)

BackupSteps(t) ==
    \/ backup_generate_speech(t)
    \/ \E ok \in BOOLEAN : load_model_attempt(t, ok)
    \/ load_model_return(t)
    \/ backup_lock_acquire(t)
    \/ \E outcome \in ModelOutcomes : backup_tts_return(t, outcome)
    \/ \E written \in WriteOutcomes : backup_write(t, written)

SimpleSteps(t) ==
    \/ simple_lock_acquire(t)
    \/ \E outcome \in ModelOutcomes : simple_tts_return(t, outcome)
    \/ \E written \in WriteOutcomes : simple_write(t, written)

\* one client: each request is answered before the next is sent
Next ==
    \/ /\ Free(1, "hybrid", MaxRequests)
       /\ \E r \in GenerateRequests : generate_route(1, r)
    \/ /\ Free(1, "hybrid", MaxRequests)
       /\ \E r \in LegacyRequests : hybrid_handle_tts_request(1, r)
    \/ /\ Free(1, "backup", MaxRequests)
       /\ \E r \in BackupRequests : backup_handle_tts_request(1, r)
    \/ /\ Free(1, "tts_service", MaxRequests)
       /\ \E r \in SimpleRequests : simple_handle_tts_request(1, r)
    \/ Free(1, "hybrid", MaxRequests) /\ hybrid_health_check(1)
    \/ Free(1, "backup", MaxRequests) /\ backup_health_check(1)
    \/ \E link \in issued : download_file(1, link)
    \/ restart
    \/ CliSteps
    \/ SpeechSteps
    \/ HybridSteps(1)
    \/ BackupSteps(1)
    \/ SimpleSteps(1)

\* concurrent clients: every thread of the pool serves requests
NextConc ==
    \/ \E t \in Threads :
          /\ Free(t, "hybrid", MaxConcRequests)
          /\ \E r \in ConcGenerateRequests : generate_route(t, r)
    \/ \E t \in Threads :
          /\ Free(t, "hybrid", MaxConcRequests)
          /\ \E r \in ConcLegacyRequests : hybrid_handle_tts_request(t, r)
    \/ \E t \in Threads :
          /\ Free(t, "backup", MaxConcRequests)
          /\ \E r \in ConcBackupRequests : backup_handle_tts_request(t, r)
    \/ \E t \in Threads :
          /\ Free(t, "tts_service", MaxConcRequests)
          /\ \E r \in ConcSimpleRequests : simple_handle_tts_request(t, r)
    \/ \E t \in Threads : HybridSteps(t)
    \/ \E t \in Threads : BackupSteps(t)
    \/ \E t \in Threads : SimpleSteps(t)

Spec == Init /\ [][Next]_vars

SpecConc == Init /\ [][NextConc]_vars

\* the steps of a request of tts_service_backup for a voice whose model is
\* cached
CachedBackupSteps(t) ==
    \/ backup_generate_speech(t)
    \/ load_model_return(t)
    \/ backup_lock_acquire(t)
    \/ \E outcome \in ModelOutcomes : backup_tts_return(t, outcome)
    \/ \E written \in WriteOutcomes : backup_write(t, written)

\* a handler thread that can take a step is scheduled, and a model call or a
\* file write it waits for returns or raises
Fairness ==
    \A t \in Threads : WF_vars(CachedBackupSteps(t) \/ SimpleSteps(t))

\* the requests of the concurrent clients of tts_service_backup: a voice of the
\* language loaded at start
LockBackupRequests ==
    {Json("/api/tts", [text |-> <<"Hi">>,
                       reference_audio_filename |-> <<rf, ".WAV">>]) :
        rf \in {"Paulo"}}

\* concurrent clients of tts_service_backup and tts_service
NextLock ==
    \/ \E t \in Threads :
          /\ Free(t, "backup", MaxConcRequests)
          /\ \E r \in LockBackupRequests : backup_handle_tts_request(t, r)
    \/ \E t \in Threads :
          /\ Free(t, "tts_service", MaxConcRequests)
          /\ \E r \in ConcSimpleRequests : simple_handle_tts_request(t, r)
    \/ \E t \in Threads : CachedBackupSteps(t)
    \/ \E t \in Threads : SimpleSteps(t)

SpecLive == Init /\ [][NextLock]_vars /\ Fairness

----------------------------------------------------------------------------
(* Properties *)

Done(t) == pc[t] = "done"

Initializing(t) == pc[t] \in {"loading", "init"}

\* the cache key the load of thread t reads and fills
LoadKey(t) == IF service = "hybrid" THEN loc[t].engine ELSE loc[t].language

\* the load of thread t has returned or raised
PastLoad(t) == obs[t].loader # "none"

HasQuote(s) == HasToken(s, DQ) \/ HasToken(s, SQ)

\* a member of the JSON body is missing, or empty after trimming
Blank(r, member) ==
    member \notin DOMAIN r.body \/ strip(r.body[member]) = <<>>

\* the voice a request names
NamedVoice(r) ==
    IF r.endpoint = "/generate" THEN strip(get(r.body, "voice", <<>>))
    ELSE replace(replace(get(r.body, "reference_audio_filename", <<>>), ".WAV"),
                 ".wav")

\* the handle cached for the key of thread t's request when it was accepted
CachedAtAccept(t) ==
    IF service = "hybrid"
    THEN IF loc[t].engine = "chatterbox" THEN obs[t].before[1] ELSE obs[t].before[2]
    ELSE get(obs[t].before[3], loc[t].requested, None)

\* C1: at most one request at a time executes a model invocation on a given
\* handle, in every service
C1_NoInterleavedInvocation ==
    \A t1, t2 \in Threads :
        (t1 # t2 /\ pc[t1] = "in_model" /\ pc[t2] = "in_model")
            => loc[t1].handle # loc[t2].handle

\* C2: two requests never both run the initializer of the same key
C2_InitializerNotRunTwice ==
    \A t1, t2 \in Threads :
        (t1 # t2 /\ Initializing(t1) /\ Initializing(t2))
            => LoadKey(t1) # LoadKey(t2)

\* C3: a load of a key that an earlier load returned a handle for returns that
\* same handle and runs no initializer
C3_SecondLoadSameHandle ==
    \A t \in Threads :
        (pc[t] \in {"call", "wait_lock"} /\ obs[t].prior # None)
            => /\ lastLoad[loc[t].requested] = obs[t].prior
               /\ obs[t].tried = <<>>

\* C4: a request of the hybrid service that names an unregistered voice is
\* answered 400, on /generate and on /api/tts
C4_UnknownVoiceIsClientError ==
    \A t \in Threads :
        (/\ service = "hybrid"
         /\ Done(t)
         /\ req[t].json
         /\ NamedVoice(req[t]) # <<>>
         /\ ~InVoiceConfig(NamedVoice(req[t])))
            => resp[t].status = 400

\* the cases C5 names: no body, text or voice missing or blank, voice unregistered
C5_Rejected(r) ==
    \/ ~r.json
    \/ Blank(r, "text")
    \/ Blank(r, "voice")
    \/ ~InVoiceConfig(strip(r.body["voice"]))

\* C5: POST /generate answers these with 400 and a JSON error, and the request
\* reaches neither generate_speech nor a loader nor a model, and changes no handle
C5_GenerateValidation ==
    \A t \in Threads :
        (Done(t) /\ req[t].endpoint = "/generate" /\ C5_Rejected(req[t]))
            => /\ resp[t].status = 400
               /\ resp[t].type = "json"
               /\ resp[t].body[1] = "error"
               /\ ~obs[t].dispatched
               /\ obs[t].loader = "none"
               /\ obs[t].inference = "none"
               /\ Handles = obs[t].before

\* a blank text with a registered voice is rejected while an engine is loaded
C5_Witness ==
    /\ Done(1)
    /\ req[1].endpoint = "/generate"
    /\ req[1].json
    /\ DOMAIN req[1].body = {"text", "voice"}
    /\ req[1].body["text"] = <<SP, SP>>
    /\ req[1].body["voice"] = <<SP, "Charlotte", SP>>
    /\ chatterbox_model # None
    /\ resp[1].status = 400

\* C6: POST /api/tts rejects a missing or empty text with 400 before any load,
\* synthesis or file write
C6_LegacyTextValidation ==
    \A t \in Threads :
        (/\ Done(t)
         /\ req[t].endpoint = "/api/tts"
         /\ req[t].json
         /\ get(req[t].body, "text", <<>>) = <<>>)
            => /\ resp[t].status = 400
               /\ ~obs[t].dispatched
               /\ obs[t].loader = "none"
               /\ obs[t].inference = "none"

\* C7: in the hybrid service a load that failed is answered 500 and changes no
\* handle, and a request whose own load and inference succeed, and whose audio
\* files are read and written, is answered 200, also after the other engine
\* failed to load
C7_LoadFailureIsolated ==
    \A t \in Threads :
        (service = "hybrid" /\ Done(t))
            => /\ obs[t].loader = "failed"
                    => resp[t].status = 500 /\ Handles = obs[t].before
               /\ (/\ obs[t].loader \in {"ok", "cached"}
                   /\ obs[t].inference = "ok"
                   /\ obs[t].io # "failed")
                    => resp[t].status = 200

\* an xtts voice is served after chatterbox failed to load
C7_Witness ==
    /\ service = "hybrid"
    /\ Done(1)
    /\ loc[1].engine = "xtts"
    /\ "chatterbox" \in obs[1].afterFailed
    /\ chatterbox_model = None
    /\ obs[1].loader = "ok"
    /\ resp[1].status = 200

InOrder(tried) ==
    \A i \in 1..Len(tried) : tried[i] => i = Len(tried)

\* C9: load_model tries the candidates in order; the first that initializes is
\* cached for the requested key; it raises only when all failed, and then no
\* handle is cached for the key
C9_FallbackOrder ==
    \A t \in Threads :
        (service = "backup" /\ PastLoad(t) /\ pc[t] \in {"return_model", "done"})
            => /\ InOrder(obs[t].tried)
               /\ (obs[t].loader = "ok" /\ pc[t] = "return_model")
                    => get(tts_models, loc[t].requested, None) = obs[t].made
               /\ obs[t].loader = "failed"
                    => /\ Len(obs[t].tried) = Len(Candidates(loc[t].language))
                       /\ \A i \in 1..Len(obs[t].tried) : ~obs[t].tried[i]
                       /\ loc[t].requested \notin DOMAIN tts_models

\* C10: the text handed to the model holds no straight quote, in every service
C10_NoQuotesReachModel ==
    \A t \in Threads : pc[t] = "in_model" => ~HasQuote(loc[t].handed)

\* the registered voice a request names, or "none"; generate_audio.py has no
\* registry
RegisteredVoice(t) ==
    IF service = "hybrid"
    THEN IF InVoiceConfig(loc[t].voice) THEN loc[t].voice[1] ELSE "none"
    ELSE IF /\ service = "backup"
            /\ Len(loc[t].voice) = 2
            /\ loc[t].voice[2] = ".WAV"
            /\ loc[t].voice[1] \in DOMAIN VOICE_LANGUAGES
         THEN loc[t].voice[1]
         ELSE "none"

\* the language code a model call of thread t is made for: the one the call
\* passes whenever it passes one (a retry after a language error passes none)
CallLanguage(t) == IF service = "hybrid" THEN loc[t].language ELSE loc[t].requested

\* C11: a model call for a registered voice uses the engine and the language of
\* the voice's registry entry, whatever language the request carries
C11_RegistryDecides ==
    \A t \in Threads :
        (pc[t] = "in_model" /\ RegisteredVoice(t) # "none")
            => LET v == RegisteredVoice(t)
               IN  /\ CallLanguage(t) = voice_config[v].language
                   /\ service = "hybrid"
                        => /\ loc[t].engine = voice_config[v].engine
                           /\ loc[t].handle.key = voice_config[v].engine
                   /\ service = "backup"
                        => /\ CallLanguage(t) = VOICE_LANGUAGES[v]
                           /\ loc[t].handle.model = MODELS[VOICE_LANGUAGES[v]]

\* an English voice is synthesized as English although the request says "fr"
C11_Witness ==
    /\ service = "backup"
    /\ pc[1] = "in_model"
    /\ RegisteredVoice(1) = "Charlotte"
    /\ get(req[1].body, "language", "pt") = "fr"
    /\ CallLanguage(1) = "en"

\* the reference-audio file the synthesis of thread t's voice needs
ReferenceFile(t) ==
    IF service = "hybrid" THEN voice_config[RegisteredVoice(t)].audio_file
    ELSE loc[t].voice

\* msg holds the tokens of part, in order and adjacent
Mentions(msg, part) ==
    \E i \in 1..Len(msg) :
        /\ i + Len(part) - 1 <= Len(msg)
        /\ SubSeq(msg, i, i + Len(part) - 1) = part

\* C12: a request for a registered voice whose reference-audio file is absent,
\* and whose engine did not fail to load, is answered 500 with a message that names the missing file, and no model is
\* called without the reference voice
C12_MissingReferenceIsError ==
    \A t \in Threads :
        (/\ Done(t)
         /\ obs[t].dispatched
         /\ obs[t].loader # "failed"
         /\ RegisteredVoice(t) # "none"
         /\ ReferenceFile(t) \notin reference_audio)
            => /\ resp[t].status = 500
               /\ resp[t].body[1] = "error"
               /\ Mentions(resp[t].body[2], ReferenceFile(t))
               /\ obs[t].calls = <<>>

\* C13: when the model raises during inference the HTTP request is answered 500
\* with a JSON error body that holds the text of the exception
C13_ExceptionTextSurfaced ==
    \A t \in Threads :
        (service # "cli" /\ Done(t) /\ obs[t].inference = "raised")
            => /\ resp[t].status = 500
               /\ resp[t].type = "json"
               /\ resp[t].body[1] = "error"
               /\ HasToken(resp[t].body[2], obs[t].exception)

\* thread t's request is synthesized by the multilingual (XTTS) adapter
MultilingualAdapter(t) == service = "backup" \/ loc[t].engine = "xtts"

\* C14: the multilingual adapter calls the model a second time exactly when the
\* first call raised the language error, then without the language and with the
\* same text and reference audio, and never a third time; any other error of
\* the first call ends the request with that error
C14_LanguageRetry ==
    \A t \in Threads :
        LET c == obs[t].calls
        IN  (MultilingualAdapter(t) /\ pc[t] \in {"done", "writing"} /\ c # <<>>)
                => /\ Len(c) <= 2
                   /\ Len(c) = 2 <=> is_language_error(c[1].outcome)
                   /\ Len(c) = 2
                        => /\ c[1].language /\ ~c[2].language
                           /\ c[2].text = c[1].text
                           /\ c[2].speaker_wav = c[1].speaker_wav
                   /\ (Len(c) = 1 /\ c[1].outcome # "ok")
                        => obs[t].exception = c[1].outcome

\* the engine keys that have a handle cached
LoadedKeys ==
    IF service = "hybrid" THEN {k \in HybridKeys : Model(k) # None}
    ELSE DOMAIN tts_models

\* the names a /health response lists
Reported(body) == body[2]

\* C15: GET /health lists exactly the engine keys that have a cached handle
C15_HealthListsLoadedKeys ==
    \A t \in Threads :
        (Done(t) /\ req[t].endpoint = "/health")
            => Reported(resp[t].body) = LoadedKeys

\* hybrid_tts.generate_speech returned success to the route of thread t
DispatcherSucceeded(t) == obs[t].returned # <<>> /\ obs[t].returned[1]

C17_DownloadRoundTrip ==
    \A t \in Threads :
        (Done(t) /\ req[t].endpoint = "/api/download")
            => /\ resp[t].status = 200
               /\ resp[t].body = req[t].body.wave

\* C18: two /api/tts requests that differ in text or in
\* reference_audio_filename are written to different file names
C18_DistinctRequestsDistinctFiles ==
    \A a, b \in issued :
        (\/ a.text # b.text
         \/ a.reference_audio_filename # b.reference_audio_filename)
            => a.name # b.name

\* C19: two /api/tts requests with equal text and equal
\* reference_audio_filename get the same download link, whatever their
\* language, the requests before them and the process run that served them
C19_SameRequestSameLink ==
    \A a, b \in issued :
        (/\ a.text = b.text
         /\ a.reference_audio_filename = b.reference_audio_filename)
            => a.name = b.name

\* C20: generate_audio.py writes exactly one JSON object to standard output for
\* every input, {success: true, output_path} exactly when the synthesis
\* succeeded and {success: false, error} otherwise, and sys.stdout names
\* standard output again when the response is printed
C20_OneJsonOnStdout ==
    (service = "cli" /\ Done(1))
        => /\ sys_stdout = "stdout"
           /\ Len(stdout) = 1
           /\ stdout[1].success <=> obs[1].inference = "ok"
           /\ stdout[1].success
                => stdout[1].detail = output_filename(loc[1].text, loc[1].voice)

\* thread t synthesizes with a handle that was cached when it asked for it
UsesCachedHandle(t) ==
    /\ obs[t].loader = "cached"
    /\ pc[t] \in {"call", "return_model", "wait_lock", "in_model", "writing"}

\* C21: while a request runs the initializer of a key that is not loaded, a
\* request whose key is loaded can take every step up to its response; the
\* only thing it ever waits for is model_lock held by a request that is inside
\* tts_model.tts(...), never the initializer
C21_LoadedKeyNotBlocked ==
    \A t1, t2 \in Threads :
        (t1 # t2 /\ Initializing(t1) /\ UsesCachedHandle(t2))
            => \/ ENABLED (HybridSteps(t2) \/ BackupSteps(t2))
               \/ /\ pc[t2] = "wait_lock"
                  /\ model_lock \in Threads \ {t1, t2}
                  /\ pc[model_lock] = "in_model"

\* a request accepted after an initialization began is answered with its link
\* while the initialization still runs
C21_Witness ==
    \E t1, t2 \in Threads :
        /\ Initializing(t1)
        /\ Done(t2)
        /\ obs[t2].serial > obs[t1].serial
        /\ obs[t2].loader = "cached"
        /\ obs[t2].inference = "ok"
        /\ resp[t2].status = 200

\* C22: a persisted output file is written with the sample rate of the model
\* that produced the waveform
C22_FileRateIsModelRate ==
    \A t \in Threads :
        (Done(t) /\ obs[t].rate # <<>>)
            => obs[t].rate = <<NativeRate(loc[t].handle.model)>>

\* C23: whenever no loader runs, torch.load is the function it was before the
\* first load: no wrapper is left around it
C23_TorchLoadRestored ==
    (\A t \in Threads : ~Initializing(t)) => torch_load = 0

\* C24: load_model of tts_service_backup runs no initializer when the key it
\* resolves to is cached, and no cached handle is replaced: every key holds the
\* first handle made for it
C24_CachedHandleKept ==
    service = "backup"
        => /\ \A t \in Threads :
                 pc[t] = "init" => loc[t].language \notin DOMAIN tts_models
           /\ \A k \in DOMAIN tts_models : tts_models[k].n = 1

\* C25: the model lock is held only by a request inside its model call, so it
\* is free after every request, answered with a link or with an error, and
\* every request that waits for the lock comes to hold it
C25_LockReleased ==
    /\ [](\A t \in Threads : model_lock = t => pc[t] = "in_model")
    /\ \A t \in Threads : (pc[t] = "wait_lock") ~> (pc[t] = "in_model")

\* a request holds the lock after the model call of an earlier request raised
C25_Witness ==
    \E t1, t2 \in Threads :
        /\ Done(t1)
        /\ obs[t1].inference = "raised"
        /\ resp[t1].status = 500
        /\ obs[t2].serial > obs[t1].serial
        /\ pc[t2] = "in_model"
        /\ model_lock = t2

\* payload is a waveform, not an error message
IsWaveform(payload) == Len(payload) = 2 /\ payload[1] = "wave"

\* C26: HybridTTSService.generate_speech returns to its caller whatever the
\* voice, the load and the inference did, with a triple whose first member
\* is true exactly when the second is a waveform and the third a sample rate,
\* and false exactly when the second is a message and the third is None
C26_DispatcherReturnsTriple ==
    \A t \in Threads :
        (service = "hybrid" /\ Done(t) /\ obs[t].dispatched)
            => LET r == obs[t].returned
               IN  /\ Len(r) = 3
                   /\ r[1] <=> (/\ IsWaveform(r[2])
                                /\ r[3] # <<>>
                                /\ r[3][1] \in Nat \ {0})
                   /\ ~r[1] <=> (~IsWaveform(r[2]) /\ r[3] = <<>>)

\* the read-back of the temporary file raised after the model returned, and
\* generate_speech returned the failure
C26_Witness ==
    /\ service = "hybrid"
    /\ Done(1)
    /\ obs[1].inference = "ok"
    /\ obs[1].io = "failed"
    /\ obs[1].returned = Failure(<<"XTTS v2 generation failed: ",
                                   "Error opening file">>)

\* the engine kind that thread t's voice does not use
OtherEngine(t) == IF loc[t].engine = "chatterbox" THEN "xtts" ELSE "chatterbox"

\* C27: in the hybrid service the registry is as at construction, and a
\* request for a voice of one engine kind does not load, replace or invoke the
\* handle of the other kind
C27_OtherEngineUntouched ==
    service = "hybrid"
        => /\ voice_config = VoiceRegistry
           /\ \A t \in Threads :
                 (obs[t].dispatched /\ loc[t].engine \in HybridKeys)
                    => /\ Model(OtherEngine(t))
                            = (IF OtherEngine(t) = "chatterbox"
                               THEN obs[t].before[1] ELSE obs[t].before[2])
                       /\ OtherEngine(t) \in failedKeys
                            => OtherEngine(t) \in obs[t].afterFailed
                       /\ pc[t] = "in_model"
                            => loc[t].handle.key = loc[t].engine
                       /\ obs[t].made # None
                            => obs[t].made.key = loc[t].engine

\* an xtts voice is served by a handle loaded for this request while the
\* chatterbox handle of an earlier request stays
C27_Witness ==
    /\ service = "hybrid"
    /\ Done(1)
    /\ loc[1].engine = "xtts"
    /\ obs[1].loader = "ok"
    /\ obs[1].made = xtts_model
    /\ chatterbox_model # None
    /\ chatterbox_model = obs[1].before[1]
    /\ resp[1].status = 200

\* C28: the temporary files that exist are those of the _generate_xtts calls
\* that are inside their model call; a call that returned, with the waveform
\* or with a failure, left none
C28_NoTempFileLeft ==
    /\ \A f \in temp_files :
          \E t \in Threads : pc[t] = "in_model" /\ obs[t].temp = f
    /\ \A t \in Threads :
          (pc[t] = "in_model" /\ loc[t].engine = "xtts")
             => obs[t].temp \in temp_files

\* a second _generate_xtts call ended with a failure and no temporary file
\* is left
C28_Witness ==
    /\ service = "hybrid"
    /\ Done(1)
    /\ obs[1].serial = 2
    /\ obs[1].temp # <<>>
    /\ obs[1].returned # <<>>
    /\ ~obs[1].returned[1]
    /\ temp_files = {}

\* C29: a POST /api/tts request answered 400 or 500 leaves the output
\* directory as it was when the request came in, and a response with a download
\* link is sent when the file of that name holds the waveform of the request
C29_ErrorLeavesNoFile ==
    \A t \in Threads :
        (Done(t) /\ req[t].endpoint = "/api/tts")
            => /\ resp[t].status \in {400, 500}
                    => /\ output_dir = obs[t].files
                       /\ resp[t].body[1] # "download_link"
               /\ resp[t].body[1] = "download_link"
                    => \E name \in DOMAIN output_dir :
                          /\ resp[t].body[2] = download_link(name)
                          /\ output_dir[name] = Wave(t)

\* C30: after a call of the command-line generate_speech the output path holds
\* the audio this call produced, or, when the call failed, no file at all
C30_NoStaleAudio ==
    (service = "speech" /\ Done(1))
        => IF obs[1].inference = "ok"
           THEN /\ OutputPath \in DOMAIN output_dir
                /\ output_dir[OutputPath] = Wave(1)
           ELSE OutputPath \notin DOMAIN output_dir

====
